---- MODULE Spec2Model ----
(***************************************************************************)
(* Model of the V4L2 back end of Aravis: the device adapter                *)
(* (arvv4l2device.c: format enumeration and the virtual register map) and  *)
(* the stream engine (arvv4l2stream.c: the capture thread, start/stop,     *)
(* buffer creation).  The kernel (v4l2_ioctl) and the ArvStream buffer     *)
(* queues are the environment the code runs against.                       *)
(***************************************************************************)
EXTENDS Integers, Sequences, FiniteSets, TLC

(***************************************************************************)
(* Bounds of the model.                                                    *)
(***************************************************************************)
MaxFormats == 2      \* formats the kernel enumerates: 0..MaxFormats
MaxSize    == 4      \* byte lengths given to read_memory: 0..MaxSize
MaxBuffers == 2      \* n_buffers given to create_buffers: 1..MaxBuffers
MaxIter    == 2      \* iterations of the capture loop per thread
MaxCycles  == 2      \* start_acquisition calls per engine

(***************************************************************************)
(* Register addresses (arvv4l2device.c, #define ARV_V4L2_ADDRESS_...).     *)
(***************************************************************************)
ARV_V4L2_ADDRESS_DEVICE_VENDOR_NAME       == 72
ARV_V4L2_ADDRESS_DEVICE_MODEL_NAME        == 104
ARV_V4L2_ADDRESS_DEVICE_VERSION           == 136
ARV_V4L2_ADDRESS_DEVICE_MANUFACTURER_INFO == 168
ARV_V4L2_ADDRESS_DEVICE_ID                == 216
ARV_V4L2_ADDRESS_WIDTH                    == 256
ARV_V4L2_ADDRESS_HEIGHT                   == 260
ARV_V4L2_ADDRESS_PAYLOAD_SIZE             == 280
ARV_V4L2_ADDRESS_ACQUISITION_COMMAND      == 292
ARV_V4L2_ADDRESS_PIXEL_FORMAT             == 296
\* an address outside the register map
UnmappedAddresses == { 512 }

StringAddresses ==
    { ARV_V4L2_ADDRESS_DEVICE_VENDOR_NAME, ARV_V4L2_ADDRESS_DEVICE_MODEL_NAME,
      ARV_V4L2_ADDRESS_DEVICE_VERSION, ARV_V4L2_ADDRESS_DEVICE_MANUFACTURER_INFO,
      ARV_V4L2_ADDRESS_DEVICE_ID }

NumericReadAddresses ==
    { ARV_V4L2_ADDRESS_WIDTH, ARV_V4L2_ADDRESS_HEIGHT,
      ARV_V4L2_ADDRESS_PAYLOAD_SIZE, ARV_V4L2_ADDRESS_PIXEL_FORMAT }

Addresses ==
    StringAddresses \cup NumericReadAddresses
        \cup { ARV_V4L2_ADDRESS_ACQUISITION_COMMAND } \cup UnmappedAddresses

\* sizeof (gint32 value)
SizeofValue == 4

(***************************************************************************)
(* Pixel formats: the V4L2 fourcc codes and the GenICam codes of           *)
(* pixel_format_map.                                                       *)
(***************************************************************************)
V4L2_PIX_FMT_RGB24 == 859981650
V4L2_PIX_FMT_BGR24 == 861030210
V4L2_PIX_FMT_YUYV  == 1448695129
\* fourcc codes pixel_format_map lacks (MJPG)
UnmappedKernelCodes == { 1196444237 }
ARV_PIXEL_FORMAT_RGB_8_PACKED   == 35127316
ARV_PIXEL_FORMAT_BGR_8_PACKED   == 35127317
ARV_PIXEL_FORMAT_YUV_422_PACKED == 34603039
\* GenICam codes that pixel_format_map never yields (Mono8)
UnmappedGenicamCodes == { 17301505 }

pixel_format_map ==
    << [v4l2 |-> V4L2_PIX_FMT_RGB24, genicam |-> ARV_PIXEL_FORMAT_RGB_8_PACKED],
       [v4l2 |-> V4L2_PIX_FMT_BGR24, genicam |-> ARV_PIXEL_FORMAT_BGR_8_PACKED],
       [v4l2 |-> V4L2_PIX_FMT_YUYV,  genicam |-> ARV_PIXEL_FORMAT_YUV_422_PACKED] >>

V4L2_FRMSIZE_TYPE_DISCRETE == 1

\* struct v4l2_frmsizeenum.  discrete {width, height} and stepwise {min_width,
\* max_width, step_width, min_height, max_height, step_height} are the members
\* of one union: stepwise.max_width lies on discrete.height.
DiscreteFrameSize(w, h) ==
    [type |-> V4L2_FRMSIZE_TYPE_DISCRETE,
     discrete_width |-> w, discrete_height |-> h,
     stepwise_max_width |-> h, stepwise_max_height |-> 0]
\* V4L2_FRMSIZE_TYPE_STEPWISE is 3
StepwiseFrameSize(min_w, max_w, min_h, max_h) ==
    [type |-> V4L2_FRMSIZE_TYPE_DISCRETE + 2,
     discrete_width |-> min_w, discrete_height |-> max_w,
     stepwise_max_width |-> max_w, stepwise_max_height |-> max_h]
\* an element of a GArray created with clear = TRUE
ZeroFrameSize ==
    [type |-> 0, discrete_width |-> 0, discrete_height |-> 0,
     stepwise_max_width |-> 0, stepwise_max_height |-> 0]

\* frame_size->type == DISCRETE ? discrete.width : stepwise.max_width
FrameWidth(fs) ==
    IF fs.type = V4L2_FRMSIZE_TYPE_DISCRETE
    THEN fs.discrete_width ELSE fs.stepwise_max_width
FrameHeight(fs) ==
    IF fs.type = V4L2_FRMSIZE_TYPE_DISCRETE
    THEN fs.discrete_height ELSE fs.stepwise_max_height

(***************************************************************************)
(* What the kernel enumerates: per format a fourcc and its frame sizes.    *)
(* The frame sizes of a format without GenICam equivalent are never asked  *)
(* for.                                                                    *)
(***************************************************************************)
KernelFormat(pixelformat, sizes) ==
    [pixelformat |-> pixelformat, sizes |-> sizes]

KernelFormats ==
    { KernelFormat(V4L2_PIX_FMT_RGB24, << DiscreteFrameSize(640, 480) >>),
      KernelFormat(V4L2_PIX_FMT_RGB24, << >>),
      KernelFormat(V4L2_PIX_FMT_YUYV, << DiscreteFrameSize(320, 240) >>),
      KernelFormat(V4L2_PIX_FMT_YUYV,
                   << DiscreteFrameSize(320, 600),
                      StepwiseFrameSize(160, 800, 120, 240) >>) }
      \cup { KernelFormat(c, << DiscreteFrameSize(1280, 720) >>) :
                c \in UnmappedKernelCodes }

SeqsUpTo(S, n) == UNION { [1..k -> S] : k \in 0..n }

KernelEnumerations == SeqsUpTo(KernelFormats, MaxFormats)

(***************************************************************************)
(* Strings are sequences of character codes; 0 is the terminating null.    *)
(* struct v4l2_capability: driver, card and the version code.              *)
(***************************************************************************)
UvcCapability ==
    [driver |-> << 117, 118, 99 >>,
     card |-> << 72, 68, 32, 67, 97, 109 >>,
     version |-> 393474]

KernelCapabilities ==
    { UvcCapability,
      [driver |-> << >>, card |-> << 67 >>, version |-> 2560],
      [driver |-> << 118, 105, 118, 105, 100 >>,
       card |-> << 118, 105 >>, version |-> 0] }

\* the "device-file" construction property
DeviceFiles == { << 47, 100, 101, 118, 47 >>, << 47, 118 >> }
Video0 == << 47, 100, 101, 118, 47 >>

\* the literal "Aravis"
AravisString == << 65, 114, 97, 118, 105, 115 >>

\* "%d" of g_strdup_printf, for n >= 0
RECURSIVE Decimal(_)
Decimal(n) ==
    IF n < 10 THEN << 48 + n >> ELSE Decimal(n \div 10) \o << 48 + (n % 10) >>

\* g_strdup_printf ("%d.%d.%d", (v >> 16) & 0xff, (v >> 8) & 0xff, v & 0xff)
VersionString(v) ==
    Decimal((v \div 65536) % 256) \o << 46 >>
        \o Decimal((v \div 256) % 256) \o << 46 >> \o Decimal(v % 256)

(***************************************************************************)
(* State.                                                                  *)
(* Kernel side (behind v4l2_ioctl): kernel_formats, kernel_cap, the format *)
(* set by VIDIOC_S_FMT (kformat) and the stream switch (streaming).        *)
(* Device adapter: dev_state and the ArvV4l2DevicePrivate record device.   *)
(* ret is the outcome of the control thread's last call.                   *)
(* Kernel buffer queue: kq, the slots the kernel holds (VIDIOC_QBUF done,   *)
(* not yet returned by VIDIOC_DQBUF or released by VIDIOC_STREAMOFF).      *)
(* ArvStream queues: input, output; held counts the buffers the consumer   *)
(* has popped and not pushed back.                                         *)
(* Stream engine: priv->thread (thread), the ArvV4l2StreamThreadData       *)
(* fields cancel, thread_started, frame_id; the capture thread's place tpc *)
(* and its locals buffers, arv_buffer, bufd_index; the control thread's    *)
(* place cpc.  n_created counts the buffers create_buffers has pushed.     *)
(* undequeued records the slots this thread has queued and not dequeued;   *)
(* iter and cycles count loop iterations and starts for the bounds.        *)
(* callback is whether thread_data->callback is set; events is what it    *)
(* has received since the last g_thread_new.                               *)
(* Lifetime: device_refs, the holders of a reference to the device object; *)
(* the descriptor device_fd ("none" is -1) and the number n_close of       *)
(* v4l2_close calls; the stream object's stream_state; the memory mappings *)
(* of the buffers; whether the process has aborted.                        *)
(* Statistics: the four guint counters of ArvV4l2StreamThreadData.         *)
(* kernel_times is the set of timestamps the kernel may put                *)
(* on a frame; bufd_length and bufd_timestamp are the fields of bufd that  *)
(* VIDIOC_DQBUF fills, dequeued whether that call succeeded; timestamp_ns  *)
(* and buffer_frame_id are the timestamp and the frame id                  *)
(* last stored in a buffer.                                                *)
(***************************************************************************)
VARIABLES kernel_formats, kernel_cap, kformat, streaming,
          dev_state, device, ret,
          kq, input, output, held, n_created,
          thread, cancel, thread_started, frame_id,
          tpc, cpc, buffers, arv_buffer, bufd_index,
          undequeued, iter, cycles,
          callback, events,
          device_refs, device_fd, n_close, stream_state, mappings, aborted,
          kernel_times, n_completed_buffers, n_failures, n_underruns,
          n_transferred_bytes, bufd_length, bufd_timestamp, dequeued,
          buffer_frame_id, timestamp_ns

kernelVars == << kernel_formats, kernel_cap, kernel_times >>
devVars == << dev_state, device >>
queueVars == << input, output, held >>
dataVars == << cancel, thread_started, frame_id >>
threadVars == << tpc, buffers, arv_buffer, bufd_index, undequeued, iter >>
streamVars == << kq, queueVars, n_created, thread, dataVars, threadVars,
                 cpc, cycles >>
hookVars == << callback, events >>
lifeVars == << device_refs, device_fd, n_close, stream_state, mappings, aborted >>
counterVars == << n_completed_buffers, n_failures, n_underruns,
                  n_transferred_bytes >>
bufdVars == << bufd_length, bufd_timestamp, dequeued >>
stampVars == << buffer_frame_id, timestamp_ns >>
statVars == << counterVars, bufdVars, stampVars >>
vars == << kernelVars, kformat, streaming, devVars, ret, streamVars, hookVars,
           lifeVars, statVars >>

(***************************************************************************)
(* Numbers wider than 31 bits.  A guint is kept as its two 16-bit halves,  *)
(* hi * 2^16 + lo, and its sums are taken modulo 2^32.  A number of        *)
(* nanoseconds is kept as giga * 10^9 + units with units < 10^9; the       *)
(* timestamps computed here all stay below 2^63.                           *)
(***************************************************************************)
GuintHalf == 65536
Giga == 1000000000

Guint(hi, lo) == [hi |-> hi, lo |-> lo]

\* the guint of a number below 2^31
ToGuint(v) == Guint(v \div GuintHalf, v % GuintHalf)

\* x + v modulo 2^32, for v below 2^31
AddGuint(x, v) ==
    Guint((x.hi + (v \div GuintHalf) + ((x.lo + (v % GuintHalf)) \div GuintHalf))
             % GuintHalf,
          (x.lo + (v % GuintHalf)) % GuintHalf)

\* x * v modulo 2^32, for v below 2^15
ScaleGuint(x, v) ==
    Guint((x.hi * v + (x.lo * v) \div GuintHalf) % GuintHalf,
          (x.lo * v) % GuintHalf)

\* x <= y
LeqGuint(x, y) == x.hi < y.hi \/ (x.hi = y.hi /\ x.lo <= y.lo)

Ns(giga, units) ==
    [giga |-> giga + (units \div Giga), units |-> units % Giga]

\* x * k
ScaleNs(x, k) == Ns(x.giga * k, x.units * k)

\* x + y
AddNs(x, y) == Ns(x.giga + y.giga, x.units + y.units)

\* a plausible slip: the value is assigned instead of compared
Max_Last(a, b) == b

Max(a, b) == IF a > b THEN a ELSE b

\* g_array_index (array, type, i): C indices start at 0
ArrayIndex(array, i) == array[i + 1]

\* g_array_insert_val (array, i, val) on an array that clears its elements:
\* beyond the end the array is expanded and the gap zero-filled
ArrayInsertVal(array, i, val, zero) ==
    IF i >= Len(array)
    THEN array \o [k \in 1..(i - Len(array)) |-> zero] \o << val >>
    ELSE SubSeq(array, 1, i) \o << val >> \o SubSeq(array, i + 1, Len(array))

\* g_array_set_size (array, n)
ArraySetSize(array, n, zero) ==
    IF n <= Len(array)
    THEN SubSeq(array, 1, n)
    ELSE array \o [k \in 1..(n - Len(array)) |-> zero]

\* the loop over k of arv_v4l2_device_constructed: genicam_pixel_format starts
\* at 0 and takes the genicam code of every matching entry
RECURSIVE GenicamPixelFormat(_, _, _)
GenicamPixelFormat(pixelformat, k, genicam_pixel_format) ==
    IF k >= Len(pixel_format_map)
    THEN genicam_pixel_format
    ELSE GenicamPixelFormat(pixelformat, k + 1,
            IF pixelformat = ArrayIndex(pixel_format_map, k).v4l2
            THEN ArrayIndex(pixel_format_map, k).genicam
            ELSE genicam_pixel_format)

\* ArvV4l2DevicePrivate as g_object allocates it: zeroed
ZeroDevice(device_file) ==
    [device_file |-> device_file,
     device_card |-> << >>, device_version |-> << >>, device_driver |-> << >>,
     sensor_width |-> 0, sensor_height |-> 0,
     pixel_format_idx |-> 0,
     pixel_formats |-> << >>, frame_sizes |-> << >>,
     enum_entries |-> << >>]

\* the loop over j: VIDIOC_ENUM_FRAMESIZES of format i until the kernel has no more
RECURSIVE EnumFrameSizes(_, _, _, _)
EnumFrameSizes(d, sizes, i, j) ==
    IF j >= Len(sizes)
    THEN d
    ELSE LET frame_size == ArrayIndex(sizes, j)
             d1 == [d EXCEPT
                      !.sensor_width = Max(@, FrameWidth(frame_size)),
                      !.sensor_height = Max(@, FrameHeight(frame_size))]
             d2 == IF j = 0
                   THEN [d1 EXCEPT !.frame_sizes =
                            ArrayInsertVal(@, i, frame_size, ZeroFrameSize)]
                   ELSE d1
         IN  EnumFrameSizes(d2, sizes, i, j + 1)

\* the body of the loop over i for a format with a GenICam equivalent:
\* the EnumEntry, pixel_format_idx = i, the frame sizes
SupportedFormat(d, format, i, genicam_pixel_format) ==
    EnumFrameSizes(
        [d EXCEPT !.enum_entries = Append(@, genicam_pixel_format),
                  !.pixel_format_idx = i],
        format.sizes, i, 0)

\* after the loop over i: the two g_array_set_size
EndEnumeration(d, i) ==
    [d EXCEPT !.pixel_formats = ArraySetSize(@, i, 0),
              !.frame_sizes = ArraySetSize(@, i, ZeroFrameSize)]

RECURSIVE EnumFormats(_, _, _)

\* a plausible slip: a format without GenICam equivalent ends the loop
UnsupportedFormat_Break(d, formats, i) == EndEnumeration(d, i)

\* if (genicam_pixel_format == 0) { ...; continue; }
UnsupportedFormat(d, formats, i) == EnumFormats(d, formats, i + 1)

\* the loop over i: VIDIOC_ENUM_FMT until the kernel has no more
EnumFormats(d, formats, i) ==
    IF i >= Len(formats)
    THEN EndEnumeration(d, i)
    ELSE LET format == ArrayIndex(formats, i)
             genicam_pixel_format == GenicamPixelFormat(format.pixelformat, 0, 0)
             d1 == [d EXCEPT !.pixel_formats =
                        ArrayInsertVal(@, i, genicam_pixel_format, 0)]
         IN  IF genicam_pixel_format = 0
             THEN UnsupportedFormat(d1, formats, i)
             ELSE EnumFormats(SupportedFormat(d1, format, i, genicam_pixel_format),
                              formats, i + 1)

\* arv_v4l2_device_constructed when no init error is taken
Constructed(d, cap, formats) ==
    EnumFormats(
        [d EXCEPT !.device_card = cap.card,
                  !.device_driver = cap.driver,
                  !.device_version = VersionString(cap.version),
                  !.sensor_width = 0,
                  !.sensor_height = 0],
        formats, 0)

(***************************************************************************)
(* The outcome of a call, as the caller sees it.  buffer is the caller's   *)
(* memory, one byte longer than the largest size passed, so that a write   *)
(* past the given size shows; word is the gint32 that memcpy stores at its *)
(* start.  -1 marks what the call has not written.                         *)
(***************************************************************************)
CallerBuffer == [k \in 1..(MaxSize + 1) |-> -1]

Ret(op, address, size, value, ok, err, buffer, word) ==
    [op |-> op, address |-> address, size |-> size, value |-> value,
     ok |-> ok, err |-> err, buffer |-> buffer, word |-> word]

NoRet == Ret("none", 0, 0, 0, TRUE, "none", CallerBuffer, -1)

\* a call that takes no register address
CallRet(op, ok, err) == Ret(op, 0, 0, 0, ok, err, CallerBuffer, -1)

\* bytes stored at buffer + offset
StoreBytes(buffer, offset, bytes) ==
    [k \in DOMAIN buffer |->
        IF k > offset /\ k <= offset + Len(bytes)
        THEN bytes[k - offset] ELSE buffer[k]]

\* a plausible slip: strcpy, the whole string and its null whatever n is
Strncpy_Unbounded(src, n) == src \o << 0 >>

\* strncpy (dest, src, n): n bytes, src padded with nulls or cut
Strncpy(src, n) ==
    [k \in 1..n |-> IF k <= Len(src) THEN src[k] ELSE 0]

\* strncpy (buffer, str, size - 1); ((char *) buffer)[size - 1] = 0
ReadString(buffer, str, size) ==
    StoreBytes(StoreBytes(buffer, 0, Strncpy(str, size - 1)), size - 1, << 0 >>)

\* the string behind an identity address
IdentityString(d, address) ==
    CASE address = ARV_V4L2_ADDRESS_DEVICE_VENDOR_NAME -> d.device_driver
      [] address = ARV_V4L2_ADDRESS_DEVICE_MODEL_NAME -> d.device_card
      [] address = ARV_V4L2_ADDRESS_DEVICE_VERSION -> d.device_version
      [] address = ARV_V4L2_ADDRESS_DEVICE_MANUFACTURER_INFO -> AravisString
      [] address = ARV_V4L2_ADDRESS_DEVICE_ID -> d.device_file

(***************************************************************************)
(* arv_v4l2_device_get_image_infos.  The frame size and the pixel format   *)
(* are read at pixel_format_idx without a range check: past the end of the *)
(* arrays the read is undefined and yields any of GarbageFrameSizes.       *)
(* VIDIOC_S_FMT and VIDIOC_G_FMT may each fail.                            *)
(***************************************************************************)
ZeroKFormat == [width |-> 0, height |-> 0, pixelformat |-> 0, sizeimage |-> 0]

\* the kernel's answer to VIDIOC_S_FMT: it takes the size and computes sizeimage
KernelSetFormat(width, height, pixelformat) ==
    [width |-> width, height |-> height, pixelformat |-> pixelformat,
     sizeimage |-> width * height]

GarbageFrameSizes == { ZeroFrameSize, DiscreteFrameSize(640, 480) }
GarbageValues == { 0, 12345 }

IndexInRange(d) ==
    /\ d.pixel_format_idx < Len(d.frame_sizes)
    /\ d.pixel_format_idx < Len(d.pixel_formats)

\* [ok, oob, kformat, payload_size, pixel_format, width, height]
ImageInfosOutcomes(d, kf) ==
    LET frame_sizes == IF d.pixel_format_idx < Len(d.frame_sizes)
                       THEN { ArrayIndex(d.frame_sizes, d.pixel_format_idx) }
                       ELSE GarbageFrameSizes
        formats == IF d.pixel_format_idx < Len(d.pixel_formats)
                   THEN { ArrayIndex(d.pixel_formats, d.pixel_format_idx) }
                   ELSE GarbageValues
        Out(ok, kf1) ==
            [ok |-> ok, oob |-> ~IndexInRange(d), kformat |-> kf1,
             payload_size |-> kf1.sizeimage, pixel_format |-> kf1.pixelformat,
             width |-> kf1.width, height |-> kf1.height]
    IN  \* VIDIOC_S_FMT == -1
        { Out(FALSE, kf) }
        \cup
        \* VIDIOC_S_FMT done, then VIDIOC_G_FMT == -1 or done
        { Out(g_fmt, KernelSetFormat(FrameWidth(fs), FrameHeight(fs), pf)) :
            g_fmt \in BOOLEAN, fs \in frame_sizes, pf \in formats }

(***************************************************************************)
(* arv_v4l2_device_read_memory (device, address, size, buffer, error).     *)
(* [ok, err, buffer, word, kformat]                                        *)
(***************************************************************************)
ReadOut(ok, err, buffer, word, kf) ==
    [ok |-> ok, err |-> err, buffer |-> buffer, word |-> word, kformat |-> kf]

\* the branch for the addresses that are not identity strings
ReadNumeric(d, kf, address, size) ==
    IF size = SizeofValue
    THEN IF IndexInRange(d)
         THEN CASE address = ARV_V4L2_ADDRESS_WIDTH ->
                     { ReadOut(TRUE, "none", CallerBuffer,
                         FrameWidth(ArrayIndex(d.frame_sizes, d.pixel_format_idx)), kf) }
                [] address = ARV_V4L2_ADDRESS_HEIGHT ->
                     { ReadOut(TRUE, "none", CallerBuffer,
                         FrameHeight(ArrayIndex(d.frame_sizes, d.pixel_format_idx)), kf) }
                [] address = ARV_V4L2_ADDRESS_PAYLOAD_SIZE ->
                     \* the result of get_image_infos is ignored: when it fails
                     \* value is copied out uninitialized
                     { ReadOut(TRUE, "none", CallerBuffer,
                               IF o.ok THEN o.payload_size ELSE junk, o.kformat) :
                         o \in ImageInfosOutcomes(d, kf), junk \in GarbageValues }
                [] address = ARV_V4L2_ADDRESS_PIXEL_FORMAT ->
                     { ReadOut(TRUE, "none", CallerBuffer,
                         ArrayIndex(d.pixel_formats, d.pixel_format_idx), kf) }
                [] OTHER ->
                     { ReadOut(FALSE, "InvalidAddress", CallerBuffer, -1, kf) }
         ELSE { ReadOut(FALSE, "InvalidAddress", CallerBuffer, -1, kf) }
    ELSE \* found is still TRUE
         { ReadOut(TRUE, "none", CallerBuffer, -1, kf) }

ReadOutcomes(d, kf, address, size, buffer_is_null) ==
    IF size < 1 \/ buffer_is_null
    THEN { ReadOut(FALSE, "none", CallerBuffer, -1, kf) }
    ELSE IF address \in StringAddresses
         THEN { ReadOut(TRUE, "none",
                    ReadString(CallerBuffer, IdentityString(d, address), size),
                    -1, kf) }
         ELSE ReadNumeric(d, kf, address, size)

(***************************************************************************)
(* _control_stream: VIDIOC_STREAMON / VIDIOC_STREAMOFF; a failure is only  *)
(* logged.  VIDIOC_STREAMOFF releases every buffer the kernel holds.       *)
(* [streaming, kq]                                                         *)
(***************************************************************************)
ControlStreamOutcomes(on, q, enable) ==
    { [streaming |-> on, kq |-> q],
      [streaming |-> enable, kq |-> IF enable THEN q ELSE {}] }

\* the loop of the pixel-format case: every matching index is stored, and the
\* loop always ends with i = pixel_formats->len
RECURSIVE PixelFormatLoop(_, _, _, _)
PixelFormatLoop(pixel_formats, value, i, pixel_format_idx) ==
    IF i >= Len(pixel_formats)
    THEN [i |-> i, pixel_format_idx |-> pixel_format_idx]
    ELSE PixelFormatLoop(pixel_formats, value, i + 1,
            IF ArrayIndex(pixel_formats, i) = value THEN i ELSE pixel_format_idx)

\* a plausible slip: the index is stored whether or not the entry matches
WritePixelFormat_StoreAlways(pixel_formats, value, pixel_format_idx) ==
    [i |-> Len(pixel_formats),
     pixel_format_idx |-> IF Len(pixel_formats) > 0
                          THEN Len(pixel_formats) - 1 ELSE pixel_format_idx]

\* a plausible slip: the matching index is never stored
WritePixelFormat_NoStore(pixel_formats, value, pixel_format_idx) ==
    [i |-> Len(pixel_formats), pixel_format_idx |-> pixel_format_idx]

\* case ARV_V4L2_ADDRESS_PIXEL_FORMAT: the loop from i = 0
WritePixelFormat(pixel_formats, value, pixel_format_idx) ==
    PixelFormatLoop(pixel_formats, value, 0, pixel_format_idx)

(***************************************************************************)
(* arv_v4l2_device_write_memory (device, address, size, buffer, error).    *)
(* [ok, err, pixel_format_idx, streaming, kq]                              *)
(***************************************************************************)
WriteOut(ok, err, idx, on, q) ==
    [ok |-> ok, err |-> err, pixel_format_idx |-> idx, streaming |-> on, kq |-> q]

WriteOutcomes(d, on, q, address, size, value) ==
    IF size = SizeofValue
    THEN CASE address = ARV_V4L2_ADDRESS_ACQUISITION_COMMAND ->
                { WriteOut(TRUE, "none", d.pixel_format_idx, c.streaming, c.kq) :
                    c \in ControlStreamOutcomes(on, q, value # 0) }
           [] address = ARV_V4L2_ADDRESS_PIXEL_FORMAT ->
                LET loop == WritePixelFormat(d.pixel_formats, value,
                                             d.pixel_format_idx)
                    found == ~(loop.i = Len(d.pixel_formats))
                IN  { WriteOut(found, IF found THEN "none" ELSE "InvalidAddress",
                               loop.pixel_format_idx, on, q) }
           [] OTHER ->
                { WriteOut(FALSE, "InvalidAddress", d.pixel_format_idx, on, q) }
    ELSE \* found is still TRUE
         { WriteOut(TRUE, "none", d.pixel_format_idx, on, q) }

(***************************************************************************)
(* The device adapter's operations, called on the control thread.          *)
(***************************************************************************)
\* arv_v4l2_device_constructed: v4l2_open or VIDIOC_QUERYCAP fails and the
\* init error is taken, or the formats are enumerated
arv_v4l2_device_constructed ==
    /\ dev_state = "new"
    /\ \/ \* v4l2_open fails (-1), or VIDIOC_QUERYCAP fails on the open descriptor
          /\ dev_state' = "failed"
          /\ device_fd' \in { "none", "open" }
          /\ ret' = CallRet("constructed", FALSE, "NotFound")
          /\ UNCHANGED device
       \/ /\ dev_state' = "ready"
          /\ device_fd' = "open"
          /\ device' = Constructed(device, kernel_cap, kernel_formats)
          /\ ret' = CallRet("constructed", TRUE, "none")
    /\ UNCHANGED << kernelVars, statVars, hookVars, device_refs, n_close, stream_state,
                    mappings, aborted, kformat, streaming, streamVars >>

arv_v4l2_device_read_memory(address, size, buffer_is_null) ==
    /\ dev_state = "ready"
    /\ cpc = "idle"
    /\ \E o \in ReadOutcomes(device, kformat, address, size, buffer_is_null) :
          /\ ret' = Ret("read_memory", address, size, 0,
                        o.ok, o.err, o.buffer, o.word)
          /\ kformat' = o.kformat
    /\ UNCHANGED << kernelVars, statVars, hookVars, lifeVars, streaming, devVars, streamVars >>

arv_v4l2_device_write_memory(address, size, value) ==
    /\ dev_state = "ready"
    /\ cpc = "idle"
    /\ \E o \in WriteOutcomes(device, streaming, kq, address, size, value) :
          /\ ret' = Ret("write_memory", address, size, value,
                        o.ok, o.err, CallerBuffer, -1)
          /\ device' = [device EXCEPT !.pixel_format_idx = o.pixel_format_idx]
          /\ streaming' = o.streaming
          /\ kq' = o.kq
    /\ UNCHANGED << kernelVars, statVars, hookVars, lifeVars, kformat, dev_state, queueVars, n_created, thread,
                    dataVars, threadVars, cpc, cycles >>

\* arv_v4l2_device_get_image_infos called by itself, all four results asked for
arv_v4l2_device_get_image_infos ==
    /\ dev_state = "ready"
    /\ cpc = "idle"
    /\ \E o \in ImageInfosOutcomes(device, kformat) :
          /\ ret' = Ret("get_image_infos", 0, 0, 0, o.ok,
                        IF o.oob THEN "OutOfBounds" ELSE "none", CallerBuffer,
                        IF o.ok THEN o.payload_size ELSE -1)
          /\ kformat' = o.kformat
    /\ UNCHANGED << kernelVars, statVars, hookVars, lifeVars, streaming, devVars, streamVars >>

\* the values written to registers
WriteValues ==
    { 0, 1, ARV_PIXEL_FORMAT_RGB_8_PACKED, ARV_PIXEL_FORMAT_YUV_422_PACKED }
        \cup UnmappedGenicamCodes

\* the addresses written: an identity string, a read-only number, the two
\* writable registers, an address outside the map
WriteAddresses ==
    { ARV_V4L2_ADDRESS_DEVICE_VENDOR_NAME, ARV_V4L2_ADDRESS_WIDTH,
      ARV_V4L2_ADDRESS_ACQUISITION_COMMAND, ARV_V4L2_ADDRESS_PIXEL_FORMAT }
        \cup UnmappedAddresses

\* byte lengths other than sizeof (value) given to write_memory
OtherWriteSizes == { 2, 8 }

\* the references to the device once arv_v4l2_stream_constructed has run:
\* the application's, and the one g_object_get (object, "device", ...) gave
\* thread_data->v4l2_device
StreamRefs == { "application", "stream" }

\* a buffer's kernel region after mmap: the number of munmap calls on it,
\* whether its ArvBuffer is destroyed, the calls of the caller's destructor
Mmap == [munmap |-> 0, destroyed |-> FALSE, user_destroy |-> 0]

\* struct timeval, the timestamp of struct v4l2_buffer
Timeval(tv_sec, tv_usec) == [tv_sec |-> tv_sec, tv_usec |-> tv_usec]

ZeroTimeval == Timeval(0, 0)

\* the timestamps the kernel puts on frames
KernelTimestamps ==
    { Timeval(tv_sec, tv_usec) :
        tv_sec \in { 0, 1, 2, 86400 }, tv_usec \in { 0, 1, 999999 } }

\* 1000000000000L
SecondsFactor == Ns(1000, 0)

\* 1000000000000L * bufd.timestamp.tv_sec + 1000L * bufd.timestamp.tv_usec
TimestampNs(tv) ==
    AddNs(ScaleNs(SecondsFactor, tv.tv_sec), ScaleNs(Ns(0, 1000), tv.tv_usec))

(***************************************************************************)
(* The state before any operation: the stream engine as                    *)
(* arv_v4l2_stream_constructed leaves it, no buffer created.               *)
(***************************************************************************)
NULL == 0

StreamInit ==
    /\ kq = {}
    /\ input = << >>
    /\ output = << >>
    /\ held = << >>
    /\ n_created = 0
    /\ thread = FALSE
    /\ cancel = FALSE
    /\ thread_started = FALSE
    /\ frame_id = 0
    /\ tpc = "none"
    /\ cpc = "idle"
    /\ buffers = {}
    /\ arv_buffer = NULL
    /\ bufd_index = 0
    /\ undequeued = {}
    /\ iter = 0
    /\ cycles = 0
    /\ events = << >>
    /\ n_close = 0
    /\ stream_state = "alive"
    /\ mappings = << >>
    /\ aborted = FALSE
    /\ bufd_length = 0
    /\ bufd_timestamp = ZeroTimeval
    /\ dequeued = FALSE
    /\ buffer_frame_id = 0
    /\ timestamp_ns = Ns(0, 0)

\* g_new0 (ArvV4l2StreamThreadData, 1) and the assignments after it
ZeroCounters ==
    /\ n_completed_buffers = ToGuint(0)
    /\ n_failures = ToGuint(0)
    /\ n_underruns = ToGuint(0)
    /\ n_transferred_bytes = ToGuint(0)

(***************************************************************************)
(* The ArvStream buffer queues (arvstream.c), which the engine and the     *)
(* consumer share: FIFOs of buffers.  A buffer is 1..n_created; NULL is no *)
(* buffer.                                                                 *)
(***************************************************************************)
\* arv_stream_pop_input_buffer: the head of the input queue, or NULL
PopInput(q) ==
    [buffer |-> IF q = << >> THEN NULL ELSE Head(q),
     queue |-> IF q = << >> THEN q ELSE Tail(q)]

\* arv_stream_push_output_buffer, arv_stream_push_buffer
PushBuffer(q, buffer) == Append(q, buffer)

Count(q, buffer) == Cardinality({ p \in 1..Len(q) : q[p] = buffer })

(***************************************************************************)
(* The capture thread's hash table buffers: pairs << key, value >>.        *)
(***************************************************************************)
\* g_object_get_data (buffer, "v4l2-index"), set to i by create_buffers
V4l2Index(buffer) == buffer - 1

\* g_hash_table_replace (table, key, value)
HashReplace(table, key, value) ==
    { p \in table : p[1] # key } \cup { << key, value >> }

\* g_hash_table_lookup (table, key)
HashLookup(table, key) ==
    IF \E p \in table : p[1] = key
    THEN (CHOOSE p \in table : p[1] = key)[2]
    ELSE NULL

\* the orders in which g_hash_table_iter_next may yield the values
IterOrders(table) ==
    { [k \in 1..Cardinality(table) |-> order[k][2]] :
        order \in { f \in [1..Cardinality(table) -> table] :
                      \A a, b \in 1..Cardinality(table) : a # b => f[a] # f[b] } }

\* a plausible slip: the thread ends without giving the tracked buffers back
DrainOutput_Nothing(out, values) == out

\* the loop after the capture loop: every value is pushed to the output queue
RECURSIVE DrainOutput(_, _)
DrainOutput(out, values) ==
    IF values = << >> THEN out
    ELSE DrainOutput(PushBuffer(out, Head(values)), Tail(values))

(***************************************************************************)
(* The kernel's buffer queue.                                              *)
(***************************************************************************)
\* VIDIOC_QBUF: refused for a slot the kernel already holds, may fail anyway
\* [ok, kq]
QbufOutcomes(q, index) ==
    { [ok |-> FALSE, kq |-> q] }
        \cup (IF index \in q THEN {} ELSE { [ok |-> TRUE, kq |-> q \cup { index }] })

\* VIDIOC_DQBUF: fails and leaves bufd alone (index = 0), or, when streaming,
\* returns one of the slots the kernel holds  [ok, index, kq]
DqbufOutcomes(q, on) ==
    { [ok |-> FALSE, index |-> 0, kq |-> q] }
        \cup (IF on THEN { [ok |-> TRUE, index |-> i, kq |-> q \ { i }] : i \in q }
             ELSE {})

(***************************************************************************)
(* The completion callback: what it is called with, and whether the buffer *)
(* it is called for is on the output queue at that moment.                 *)
(***************************************************************************)
CallbackEvent(type, on_output) == [type |-> type, on_output |-> on_output]

\* if (thread_data->callback != NULL) thread_data->callback (..., type, ...)
Notify(set, log, type, on_output) ==
    IF set THEN Append(log, CallbackEvent(type, on_output)) ELSE log

\* a plausible slip: the callback is called before the buffer is pushed
Deliver_CallbackFirst(out, set, log, buffer) ==
    [output |-> PushBuffer(out, buffer),
     events |-> Notify(set, log, "BUFFER_DONE", Count(out, buffer) > 0)]

\* arv_stream_push_output_buffer, then the BUFFER_DONE callback
Deliver(out, set, log, buffer) ==
    [output |-> PushBuffer(out, buffer),
     events |-> Notify(set, log, "BUFFER_DONE",
                       Count(PushBuffer(out, buffer), buffer) > 0)]

(***************************************************************************)
(* arv_v4l2_stream_thread, one action per step.                            *)
(***************************************************************************)
\* the INIT callback and g_hash_table_new
thread_init ==
    /\ tpc = "start"
    /\ buffers' = {}
    /\ undequeued' = {}
    /\ events' = Notify(callback, events, "INIT", FALSE)
    /\ tpc' = "signal"
    /\ UNCHANGED << kernelVars, statVars, callback, lifeVars, kformat, streaming, devVars, ret, kq, queueVars,
                    n_created, thread, dataVars, arv_buffer, bufd_index, iter, cpc,
                    cycles >>

\* a plausible slip: the condition is signalled without setting the flag
thread_signal_NoFlag ==
    /\ tpc = "signal"
    /\ tpc' = "loop"
    /\ UNCHANGED << kernelVars, statVars, hookVars, lifeVars, kformat, streaming, devVars,
                    ret, kq, queueVars, n_created, thread, dataVars, buffers,
                    arv_buffer, bufd_index, undequeued, iter, cpc, cycles >>

\* thread_started = TRUE and g_cond_signal, under thread_started_mutex
thread_signal ==
    /\ tpc = "signal"
    /\ thread_started' = TRUE
    /\ tpc' = "loop"
    /\ UNCHANGED << kernelVars, statVars, hookVars, lifeVars, kformat, streaming, devVars, ret, kq, queueVars,
                    n_created, thread, cancel, frame_id, buffers, arv_buffer,
                    bufd_index, undequeued, iter, cpc, cycles >>

\* while (!g_atomic_int_get (&cancel)), and bufd = {0}
thread_loop ==
    /\ tpc = "loop"
    /\ IF cancel
       THEN tpc' = "drain"
       ELSE iter < MaxIter /\ tpc' = "pop"
    /\ UNCHANGED << kernelVars, statVars, hookVars, lifeVars, kformat, streaming, devVars, ret, kq, queueVars,
                    n_created, thread, dataVars, buffers, arv_buffer, bufd_index,
                    undequeued, iter, cpc, cycles >>

\* arv_buffer = arv_stream_pop_input_buffer (stream); NULL ends the do loop
thread_pop ==
    /\ tpc = "pop"
    /\ arv_buffer' = PopInput(input).buffer
    /\ input' = PopInput(input).queue
    /\ tpc' = IF arv_buffer' = NULL THEN "dqbuf" ELSE "qbuf"
    /\ UNCHANGED << kernelVars, statVars, hookVars, lifeVars, kformat, streaming, devVars, ret, kq, output, held,
                    n_created, thread, dataVars, buffers, bufd_index, undequeued,
                    iter, cpc, cycles >>

\* VIDIOC_QBUF of the popped buffer: pushed to the output queue when it fails,
\* g_hash_table_replace when it is done.  bufd.index is written again before
\* it is read, and arv_buffer only decides that the do loop goes on.
thread_qbuf ==
    /\ tpc = "qbuf"
    /\ LET index == V4l2Index(arv_buffer)
       IN  \E o \in QbufOutcomes(kq, index) :
             /\ kq' = o.kq
             /\ IF o.ok
                THEN /\ buffers' = HashReplace(buffers, index, arv_buffer)
                     /\ undequeued' = undequeued \cup { index }
                     /\ UNCHANGED output
                ELSE /\ output' = PushBuffer(output, arv_buffer)
                     /\ UNCHANGED << buffers, undequeued >>
    /\ arv_buffer' = NULL
    /\ tpc' = "pop"
    /\ UNCHANGED << kernelVars, statVars, hookVars, lifeVars, kformat, streaming, devVars, ret, input, held,
                    n_created, thread, dataVars, bufd_index, iter, cpc, cycles >>

\* a plausible slip: a failed VIDIOC_DQBUF ends the capture loop
AfterDequeue_BreakOnError(ok) == IF ok THEN "lookup" ELSE "exit"

\* if (v4l2_ioctl (..., VIDIOC_DQBUF, &bufd) == -1) perror (...): the thread
\* goes on to the lookup either way
AfterDequeue(ok) == "lookup"

\* the descriptor is opened without O_NONBLOCK: VIDIOC_DQBUF waits while the
\* kernel streams and has no completed buffer, and select's timeout does not
\* keep the thread from calling it
DqbufMayBlock == streaming

\* select, bufd.index = 0, VIDIOC_DQBUF; neither result is acted on
thread_dqbuf ==
    /\ tpc = "dqbuf"
    /\ \E o \in DqbufOutcomes(kq, streaming), tv \in kernel_times :
          /\ kq' = o.kq
          /\ bufd_index' = o.index
          /\ bufd_length' = IF o.ok THEN kformat.sizeimage ELSE 0
          /\ bufd_timestamp' = IF o.ok THEN tv ELSE ZeroTimeval
          /\ dequeued' = o.ok
          /\ undequeued' = IF o.ok THEN undequeued \ { o.index } ELSE undequeued
          /\ tpc' = AfterDequeue(o.ok)
    /\ UNCHANGED << kernelVars, counterVars, stampVars, hookVars, lifeVars, kformat, streaming, devVars, ret, queueVars,
                    n_created, thread, dataVars, buffers, arv_buffer, iter, cpc,
                    cycles >>

\* g_hash_table_lookup (buffers, bufd.index): a buffer found is stamped,
\* pushed to the output queue and announced.  The next iteration starts with
\* bufd = {0} and assigns arv_buffer before reading it.
thread_lookup ==
    /\ tpc = "lookup"
    /\ LET found == HashLookup(buffers, bufd_index)
       IN  IF found # NULL
           THEN /\ timestamp_ns' = TimestampNs(bufd_timestamp)
                /\ buffer_frame_id' = frame_id
                /\ frame_id' = frame_id + 1
                /\ n_completed_buffers' =
                      AddGuint(n_completed_buffers, 1)
                /\ n_transferred_bytes' =
                      AddGuint(n_transferred_bytes, bufd_length)
                /\ output' = Deliver(output, callback, events, found).output
                /\ events' = Deliver(output, callback, events, found).events
           ELSE UNCHANGED << frame_id, output, events, stampVars,
                             n_completed_buffers, n_transferred_bytes >>
    /\ bufd_index' = 0
    /\ bufd_length' = 0
    /\ bufd_timestamp' = ZeroTimeval
    /\ dequeued' = FALSE
    /\ iter' = iter + 1
    /\ tpc' = "loop"
    /\ UNCHANGED << kernelVars, n_failures, n_underruns, callback, lifeVars,
                    kformat, streaming, devVars, ret, kq, input, held,
                    n_created, thread, cancel, thread_started, buffers, arv_buffer,
                    undequeued, cpc, cycles >>

\* after the loop: every value of the table is pushed to the output queue,
\* g_hash_table_unref
thread_drain ==
    /\ tpc = "drain"
    /\ \E values \in IterOrders(buffers) :
          output' = DrainOutput(output, values)
    /\ buffers' = {}
    /\ tpc' = "exit"
    /\ UNCHANGED << kernelVars, statVars, hookVars, lifeVars, kformat, streaming, devVars, ret, kq, input, held,
                    n_created, thread, dataVars, arv_buffer, bufd_index, undequeued,
                    iter, cpc, cycles >>

\* the EXIT callback and return NULL
thread_exit ==
    /\ tpc = "exit"
    /\ events' = Notify(callback, events, "EXIT", FALSE)
    /\ tpc' = "done"
    /\ UNCHANGED << kernelVars, statVars, callback, lifeVars, kformat, streaming, devVars, ret, kq, queueVars,
                    n_created, thread, dataVars, buffers, arv_buffer, bufd_index,
                    undequeued, iter, cpc, cycles >>

arv_v4l2_stream_thread ==
    \/ thread_init
    \/ thread_signal
    \/ thread_loop
    \/ thread_pop
    \/ thread_qbuf
    \/ thread_dqbuf
    \/ thread_lookup
    \/ thread_drain
    \/ thread_exit

(***************************************************************************)
(* The stream engine's operations and the consumer, on the control thread. *)
(***************************************************************************)
\* arv_v4l2_stream_create_buffers (stream, n_buffers, ...): VIDIOC_REQBUFS or
\* a VIDIOC_QUERYBUF may fail; the buffers mapped before that stay pushed.
\* It is called once, before the first start.
arv_v4l2_stream_create_buffers(n_buffers) ==
    /\ cpc = "idle"
    /\ stream_state = "alive"
    /\ dev_state = "ready"
    /\ n_created = 0
    /\ ~thread
    /\ cycles = 0
    /\ \E i \in 0..n_buffers :
          /\ n_created' = i
          /\ input' = input \o [k \in 1..i |-> k]
          /\ held' = [k \in 1..i |-> 0]
          /\ mappings' = [k \in 1..i |-> Mmap]
          /\ ret' = IF i = n_buffers
                    THEN CallRet("create_buffers", TRUE, "none")
                    ELSE CallRet("create_buffers", FALSE, "ProtocolError")
    /\ UNCHANGED << kernelVars, statVars, hookVars, device_refs, device_fd, n_close,
                    stream_state, aborted, kformat, streaming, devVars, kq, output, thread,
                    dataVars, threadVars, cpc, cycles >>

\* a plausible slip: the thread handle is not checked
ThreadIsNull_Unchecked(handle) == TRUE

\* priv->thread == NULL
ThreadIsNull(handle) == ~handle

\* a plausible slip: g_thread_new is called before the image-info query
AfterImageInfos_ThreadFirst(ok) == [spawn |-> TRUE, error |-> ~ok]

\* if (!arv_v4l2_device_get_image_infos (...)) { g_set_error; return FALSE; }
\* and only then frame_id = 0 and g_thread_new  [spawn, error]
AfterImageInfos(ok) == [spawn |-> ok, error |-> ~ok]

\* a plausible slip: the frame id goes on from the last acquisition
FrameIdAtStart_Kept(id) == id

\* thread_data->frame_id = 0
FrameIdAtStart(id) == 0

\* arv_v4l2_stream_start_acquisition up to g_thread_new
start_acquisition_spawn ==
    /\ cpc = "idle"
    /\ stream_state = "alive"
    /\ dev_state = "ready"
    /\ IF ~ThreadIsNull(thread)
       THEN \* g_return_val_if_fail (priv->thread == NULL, FALSE)
            /\ ret' = CallRet("start_acquisition", FALSE, "none")
            /\ UNCHANGED << kformat, thread, dataVars, tpc, cpc, cycles,
                            events >>
       ELSE /\ cycles < MaxCycles
            /\ cancel' = FALSE
            /\ thread_started' = FALSE
            /\ \E o \in ImageInfosOutcomes(device, kformat) :
                  /\ kformat' = o.kformat
                  /\ IF AfterImageInfos(o.ok).spawn
                     THEN /\ frame_id' = FrameIdAtStart(frame_id)
                          /\ events' = << >>
                          /\ thread' = TRUE
                          /\ tpc' = "start"
                          /\ cycles' = cycles + 1
                     ELSE UNCHANGED << frame_id, thread, tpc, cycles, events >>
                  /\ IF AfterImageInfos(o.ok).error
                     THEN /\ ret' = CallRet("start_acquisition", FALSE,
                                            "ProtocolError")
                          /\ UNCHANGED cpc
                     ELSE /\ cpc' = "start_wait"
                          /\ UNCHANGED ret
    /\ UNCHANGED << kernelVars, statVars, callback, lifeVars, streaming, devVars, kq, queueVars, n_created,
                    buffers, arv_buffer, bufd_index, undequeued, iter >>

\* a plausible slip: start returns without waiting for the thread
ThreadStartedWait_Skipped(started) == TRUE

\* while (!thread_data->thread_started) g_cond_wait (...), under
\* thread_started_mutex: left when the flag is set
ThreadStartedWait(started) == started

\* the wait for thread_started under thread_started_mutex, then return TRUE
start_acquisition_return ==
    /\ cpc = "start_wait"
    /\ ThreadStartedWait(thread_started)
    /\ cpc' = "idle"
    /\ ret' = CallRet("start_acquisition", TRUE, "none")
    /\ UNCHANGED << kernelVars, statVars, hookVars, lifeVars, kformat, streaming, devVars, kq, queueVars,
                    n_created, thread, dataVars, threadVars, cycles >>

\* arv_v4l2_stream_stop_acquisition up to g_atomic_int_set (&cancel, TRUE)
stop_acquisition_cancel ==
    /\ cpc = "idle"
    /\ stream_state = "alive"
    /\ IF ~thread
       THEN \* g_return_val_if_fail (priv->thread != NULL, FALSE)
            /\ ret' = CallRet("stop_acquisition", FALSE, "none")
            /\ UNCHANGED << cancel, cpc >>
       ELSE /\ cancel' = TRUE
            /\ cpc' = "stop_join"
            /\ UNCHANGED ret
    /\ UNCHANGED << kernelVars, statVars, hookVars, lifeVars, kformat, streaming, devVars, kq, queueVars,
                    n_created, thread, thread_started, frame_id, threadVars,
                    cycles >>

\* g_thread_join (priv->thread); priv->thread = NULL; return TRUE
\* (the iteration count of the joined thread is dropped)
stop_acquisition_join ==
    /\ cpc = "stop_join"
    /\ tpc = "done"
    /\ tpc' = "none"
    /\ thread' = FALSE
    /\ cpc' = "idle"
    /\ ret' = CallRet("stop_acquisition", TRUE, "none")
    /\ iter' = 0
    /\ UNCHANGED << kernelVars, statVars, hookVars, lifeVars, kformat, streaming, devVars, kq, queueVars,
                    n_created, dataVars, buffers, arv_buffer, bufd_index,
                    undequeued, cycles >>

\* the consumer takes the head of the output queue (arv_stream_pop_buffer)
arv_stream_pop_buffer ==
    /\ cpc = "idle"
    /\ stream_state = "alive"
    /\ output # << >>
    /\ held' = [held EXCEPT ![Head(output)] = @ + 1]
    /\ output' = Tail(output)
    /\ ret' = CallRet("pop_buffer", TRUE, "none")
    /\ UNCHANGED << kernelVars, statVars, hookVars, lifeVars, kformat, streaming, devVars, kq, input, n_created,
                    thread, dataVars, threadVars, cpc, cycles >>

\* the consumer gives a buffer back to the input queue (arv_stream_push_buffer)
arv_stream_push_buffer(buffer) ==
    /\ cpc = "idle"
    /\ stream_state = "alive"
    /\ held[buffer] > 0
    /\ held' = [held EXCEPT ![buffer] = @ - 1]
    /\ input' = PushBuffer(input, buffer)
    /\ ret' = CallRet("push_buffer", TRUE, "none")
    /\ UNCHANGED << kernelVars, statVars, hookVars, lifeVars, kformat, streaming, devVars, kq, output, n_created,
                    thread, dataVars, threadVars, cpc, cycles >>

(***************************************************************************)
(* The end of the objects: arv_v4l2_stream_finalize, the device's          *)
(* references and arv_v4l2_device_finalize, the destruction of a buffer.   *)
(***************************************************************************)
\* arv_v4l2_device_finalize: if (priv->device_fd != -1) v4l2_close (...)
\* [device_fd, n_close]
DeviceFinalize(fd, closes) ==
    IF fd # "none"
    THEN [device_fd |-> "closed", n_close |-> closes + 1]
    ELSE [device_fd |-> fd, n_close |-> closes]

\* g_object_unref of the device by one holder: the last reference finalizes
\* [device_refs, device_fd, n_close, dev_state]
DeviceUnref(refs, holder, fd, closes, state) ==
    IF refs \ { holder } = {}
    THEN [device_refs |-> {},
          device_fd |-> DeviceFinalize(fd, closes).device_fd,
          n_close |-> DeviceFinalize(fd, closes).n_close,
          dev_state |-> "finalized"]
    ELSE [device_refs |-> refs \ { holder }, device_fd |-> fd,
          n_close |-> closes, dev_state |-> state]

\* the application drops its reference to the device
g_object_unref_device ==
    /\ cpc = "idle"
    /\ ~aborted
    /\ "application" \in device_refs
    /\ LET u == DeviceUnref(device_refs, "application", device_fd, n_close,
                            dev_state)
       IN  /\ device_refs' = u.device_refs
           /\ device_fd' = u.device_fd
           /\ n_close' = u.n_close
           /\ dev_state' = u.dev_state
    /\ UNCHANGED << kernelVars, statVars, hookVars, stream_state, mappings, aborted,
                    kformat, streaming, device, ret, streamVars >>

\* a plausible slip: finalize does not look at the thread handle
ThreadIsRunning_Ignored(handle) == FALSE

\* priv->thread != NULL
ThreadIsRunning(handle) == handle

\* arv_v4l2_stream_finalize, when the last reference to the stream is
\* dropped: a running thread is stopped, up to g_atomic_int_set (&cancel, TRUE)
arv_v4l2_stream_finalize_stop ==
    /\ cpc = "idle"
    /\ stream_state = "alive"
    /\ stream_state' = "finalizing"
    /\ IF ThreadIsRunning(thread)
       THEN cancel' = TRUE /\ cpc' = "finalize_join"
       ELSE cpc' = "finalize_clear" /\ UNCHANGED cancel
    /\ UNCHANGED << kernelVars, statVars, hookVars, device_refs, device_fd, n_close,
                    mappings, aborted, kformat, streaming, devVars, ret, kq,
                    queueVars, n_created, thread, thread_started, frame_id,
                    threadVars, cycles >>

\* g_thread_join and priv->thread = NULL of the stop_acquisition called by
\* arv_v4l2_stream_finalize, whose return value is dropped
arv_v4l2_stream_finalize_join ==
    /\ cpc = "finalize_join"
    /\ tpc = "done"
    /\ tpc' = "none"
    /\ thread' = FALSE
    /\ iter' = 0
    /\ cpc' = "finalize_clear"
    /\ UNCHANGED << kernelVars, statVars, hookVars, lifeVars, kformat, streaming, devVars,
                    ret, kq, queueVars, n_created, dataVars, buffers, arv_buffer,
                    bufd_index, undequeued, cycles >>

\* g_clear_object (&priv->thread_data->v4l2_device), g_free of thread_data
\* and the parent's finalize
arv_v4l2_stream_finalize_clear ==
    /\ cpc = "finalize_clear"
    /\ LET u == DeviceUnref(device_refs, "stream", device_fd, n_close, dev_state)
       IN  /\ device_refs' = u.device_refs
           /\ device_fd' = u.device_fd
           /\ n_close' = u.n_close
           /\ dev_state' = u.dev_state
    /\ stream_state' = "finalized"
    /\ cpc' = "idle"
    /\ UNCHANGED << kernelVars, statVars, hookVars, mappings, aborted, kformat, streaming,
                    device, ret, kq, queueVars, n_created, thread, dataVars,
                    threadVars, cycles >>

\* _v4l2_buffer_destroy_func (data), run when an ArvBuffer is destroyed:
\* free (buffer->priv->data) is given memory that malloc did not return, so
\* the process aborts or goes on; munmap is not called; the caller's
\* destructor stored under "destroy-func" is then called or, when data is
\* not the buffer, not found  [munmap, user_destroy, aborted]
DestroyFuncOutcomes(mapping) ==
    { [munmap |-> mapping.munmap, user_destroy |-> mapping.user_destroy,
       aborted |-> TRUE] }
        \cup { [munmap |-> mapping.munmap,
                user_destroy |-> mapping.user_destroy + called,
                aborted |-> FALSE] : called \in { 0, 1 } }

\* the destruction of a buffer that the finalized stream's queues or the
\* consumer gave up
arv_buffer_finalize(buffer) ==
    /\ cpc = "idle"
    /\ ~aborted
    /\ stream_state = "finalized"
    /\ ~mappings[buffer].destroyed
    /\ \E o \in DestroyFuncOutcomes(mappings[buffer]) :
          /\ mappings' = [mappings EXCEPT ![buffer] =
                             [munmap |-> o.munmap, destroyed |-> TRUE,
                              user_destroy |-> o.user_destroy]]
          /\ aborted' = o.aborted
    /\ UNCHANGED << kernelVars, statVars, hookVars, device_refs, device_fd, n_close,
                    stream_state, kformat, streaming, devVars, ret, streamVars >>

(***************************************************************************)
(* Spec: one engine on a constructed device whose kernel has one format.   *)
(***************************************************************************)
OneFormat ==
    << KernelFormat(V4L2_PIX_FMT_RGB24, << DiscreteFrameSize(640, 480) >>) >>

Init ==
    /\ kernel_formats = OneFormat
    /\ kernel_cap = UvcCapability
    /\ kformat = ZeroKFormat
    /\ streaming = FALSE
    /\ dev_state = "ready"
    /\ device = Constructed(ZeroDevice(Video0), kernel_cap, kernel_formats)
    /\ ret = NoRet
    /\ callback = TRUE
    /\ device_refs = StreamRefs
    /\ device_fd = "open"
    /\ StreamInit
    /\ ZeroCounters
    /\ kernel_times = { ZeroTimeval }

Next ==
    \/ \E n_buffers \in 1..MaxBuffers : arv_v4l2_stream_create_buffers(n_buffers)
    \/ start_acquisition_spawn
    \/ start_acquisition_return
    \/ stop_acquisition_cancel
    \/ stop_acquisition_join
    \/ arv_stream_pop_buffer
    \/ \E buffer \in 1..n_created : arv_stream_push_buffer(buffer)
    \/ \E value \in { 0, 1 } :
          arv_v4l2_device_write_memory(ARV_V4L2_ADDRESS_ACQUISITION_COMMAND,
                                       SizeofValue, value)
    \/ arv_v4l2_stream_thread

Spec == Init /\ [][Next]_vars

(***************************************************************************)
(* SpecFair: the engine's calls and the capture thread under a fair        *)
(* scheduler, with or without a callback.  Every step of the thread and    *)
(* every return of a waiting call is taken once it stays possible, except  *)
(* a VIDIOC_DQBUF that may block.                                          *)
(***************************************************************************)
InitFair ==
    /\ kernel_formats = OneFormat
    /\ kernel_cap = UvcCapability
    /\ kformat = ZeroKFormat
    /\ streaming = FALSE
    /\ dev_state = "ready"
    /\ device = Constructed(ZeroDevice(Video0), kernel_cap, kernel_formats)
    /\ ret = NoRet
    /\ callback \in BOOLEAN
    /\ device_refs = StreamRefs
    /\ device_fd = "open"
    /\ StreamInit
    /\ ZeroCounters
    /\ kernel_times = { ZeroTimeval }

NextFair ==
    \/ \E n_buffers \in 1..MaxBuffers : arv_v4l2_stream_create_buffers(n_buffers)
    \/ start_acquisition_spawn
    \/ start_acquisition_return
    \/ stop_acquisition_cancel
    \/ stop_acquisition_join
    \/ \E value \in { 0, 1 } :
          arv_v4l2_device_write_memory(ARV_V4L2_ADDRESS_ACQUISITION_COMMAND,
                                       SizeofValue, value)
    \/ arv_v4l2_stream_thread

Fairness ==
    /\ WF_vars(thread_init)
    /\ WF_vars(thread_signal)
    /\ WF_vars(thread_loop)
    /\ WF_vars(thread_pop)
    /\ WF_vars(thread_qbuf)
    /\ WF_vars(thread_dqbuf /\ ~DqbufMayBlock)
    /\ WF_vars(thread_lookup)
    /\ WF_vars(thread_drain)
    /\ WF_vars(thread_exit)
    /\ WF_vars(start_acquisition_return)
    /\ WF_vars(stop_acquisition_join)

SpecFair == InitFair /\ [][NextFair]_vars /\ Fairness

(***************************************************************************)
(* SpecLifetime: the engine's calls and the capture thread, then the end   *)
(* of the stream, of the device and of the buffers.                        *)
(***************************************************************************)
NextLifetime ==
    \/ \E n_buffers \in 1..MaxBuffers : arv_v4l2_stream_create_buffers(n_buffers)
    \/ start_acquisition_spawn
    \/ start_acquisition_return
    \/ stop_acquisition_cancel
    \/ stop_acquisition_join
    \/ arv_v4l2_stream_thread
    \/ arv_v4l2_stream_finalize_stop
    \/ arv_v4l2_stream_finalize_join
    \/ arv_v4l2_stream_finalize_clear
    \/ g_object_unref_device
    \/ \E buffer \in 1..n_created : arv_buffer_finalize(buffer)

SpecLifetime == InitFair /\ [][NextLifetime]_vars

(***************************************************************************)
(* A stopped engine with one buffer, after earlier acquisitions that       *)
(* delivered frames buffers in all: the counters have counted them, the    *)
(* kernel has its format and streams, the buffer is back on the input      *)
(* queue and the consumer still has the copy that the last thread's end    *)
(* pushed.  With frames = 0 the engine has only created its buffer.  The   *)
(* earlier acquisitions ran without a callback.                            *)
(***************************************************************************)
FramesBefore == 13981

Stopped(frames) ==
    /\ kernel_formats = OneFormat
    /\ kernel_cap = UvcCapability
    /\ dev_state = "ready"
    /\ device = Constructed(ZeroDevice(Video0), kernel_cap, kernel_formats)
    /\ kformat = IF frames = 0 THEN ZeroKFormat
                 ELSE (CHOOSE o \in ImageInfosOutcomes(device, ZeroKFormat) :
                         o.ok).kformat
    /\ streaming = (frames > 0)
    /\ ret = IF frames = 0 THEN CallRet("create_buffers", TRUE, "none")
             ELSE CallRet("stop_acquisition", TRUE, "none")
    /\ events = << >>
    /\ device_refs = StreamRefs
    /\ device_fd = "open"
    /\ n_close = 0
    /\ stream_state = "alive"
    /\ mappings = << Mmap >>
    /\ aborted = FALSE
    /\ kq = {}
    /\ input = << 1 >>
    /\ output = << >>
    /\ held = << IF frames = 0 THEN 0 ELSE 1 >>
    /\ n_created = 1
    /\ thread = FALSE
    /\ cancel = (frames > 0)
    /\ thread_started = (frames > 0)
    /\ frame_id = frames
    /\ tpc = "none"
    /\ cpc = "idle"
    /\ buffers = {}
    /\ arv_buffer = NULL
    /\ bufd_index = 0
    /\ undequeued = {}
    /\ iter = 0
    /\ cycles = 0
    /\ bufd_length = 0
    /\ bufd_timestamp = ZeroTimeval
    /\ dequeued = FALSE
    /\ buffer_frame_id = IF frames = 0 THEN 0 ELSE frames - 1
    /\ timestamp_ns = Ns(0, 0)
    /\ n_completed_buffers = ToGuint(frames)
    /\ n_failures = ToGuint(0)
    /\ n_underruns = ToGuint(0)
    /\ n_transferred_bytes =
          ScaleGuint(ToGuint(KernelSetFormat(640, 480, 0).sizeimage), frames)

NextStopped ==
    \/ start_acquisition_spawn
    \/ start_acquisition_return
    \/ stop_acquisition_cancel
    \/ stop_acquisition_join
    \/ arv_stream_pop_buffer
    \/ \E buffer \in 1..n_created : arv_stream_push_buffer(buffer)
    \/ \E value \in { 0, 1 } :
          arv_v4l2_device_write_memory(ARV_V4L2_ADDRESS_ACQUISITION_COMMAND,
                                       SizeofValue, value)
    \/ arv_v4l2_stream_thread

(***************************************************************************)
(* SpecCounters: the statistics of an engine that has already delivered    *)
(* FramesBefore frames of 640 x 480 bytes.                                 *)
(***************************************************************************)
InitCounters ==
    /\ Stopped(FramesBefore)
    /\ callback = FALSE
    /\ kernel_times = { ZeroTimeval }

SpecCounters == InitCounters /\ [][NextStopped]_vars

(***************************************************************************)
(* SpecFrameId: the frame ids of the buffers announced to a callback, over *)
(* the acquisitions of an engine with one buffer that the consumer gives   *)
(* back.                                                                   *)
(***************************************************************************)
InitFrameId ==
    /\ Stopped(0)
    /\ callback = TRUE
    /\ kernel_times = { ZeroTimeval }

SpecFrameId == InitFrameId /\ [][NextStopped]_vars

(***************************************************************************)
(* SpecTimestamp: the timestamp of a delivered buffer, for the kernel      *)
(* timestamps of KernelTimestamps.                                         *)
(***************************************************************************)
InitTimestamp ==
    /\ Stopped(0)
    /\ callback = FALSE
    /\ kernel_times = KernelTimestamps

NextTimestamp ==
    \/ start_acquisition_spawn
    \/ start_acquisition_return
    \/ stop_acquisition_cancel
    \/ stop_acquisition_join
    \/ \E value \in { 0, 1 } :
          arv_v4l2_device_write_memory(ARV_V4L2_ADDRESS_ACQUISITION_COMMAND,
                                       SizeofValue, value)
    \/ arv_v4l2_stream_thread

SpecTimestamp == InitTimestamp /\ [][NextTimestamp]_vars

(***************************************************************************)
(* SpecDevice: the device adapter and its numeric registers, from any      *)
(* kernel enumeration.                                                     *)
(***************************************************************************)
InitDevice ==
    /\ kernel_formats \in KernelEnumerations
    /\ kernel_cap = UvcCapability
    /\ kformat = ZeroKFormat
    /\ streaming = FALSE
    /\ dev_state = "new"
    /\ device = ZeroDevice(Video0)
    /\ ret = NoRet
    /\ callback = FALSE
    /\ device_refs = { "application" }
    /\ device_fd = "none"
    /\ StreamInit
    /\ ZeroCounters
    /\ kernel_times = { ZeroTimeval }

NextDevice ==
    \/ arv_v4l2_device_constructed
    \/ \E address \in Addresses \ StringAddresses, size \in 0..MaxSize :
          arv_v4l2_device_read_memory(address, size, FALSE)
    \/ arv_v4l2_device_read_memory(ARV_V4L2_ADDRESS_PIXEL_FORMAT, SizeofValue, TRUE)
    \/ \E address \in WriteAddresses, value \in WriteValues :
          arv_v4l2_device_write_memory(address, SizeofValue, value)
    \/ \E address \in WriteAddresses, size \in OtherWriteSizes :
          arv_v4l2_device_write_memory(address, size, 1)
    \/ arv_v4l2_device_get_image_infos

SpecDevice == InitDevice /\ [][NextDevice]_vars

(***************************************************************************)
(* SpecIdentity: the identity strings, from any capability and device file *)
(***************************************************************************)
InitIdentity ==
    /\ kernel_formats = OneFormat
    /\ kernel_cap \in KernelCapabilities
    /\ kformat = ZeroKFormat
    /\ streaming = FALSE
    /\ dev_state = "new"
    /\ device \in { ZeroDevice(f) : f \in DeviceFiles }
    /\ ret = NoRet
    /\ callback = FALSE
    /\ device_refs = { "application" }
    /\ device_fd = "none"
    /\ StreamInit
    /\ ZeroCounters
    /\ kernel_times = { ZeroTimeval }

NextIdentity ==
    \/ arv_v4l2_device_constructed
    \/ \E address \in StringAddresses, size \in 0..MaxSize :
          arv_v4l2_device_read_memory(address, size, FALSE)

SpecIdentity == InitIdentity /\ [][NextIdentity]_vars

(***************************************************************************)
(* Properties of the statistics and of what is stored in delivered buffers *)
(***************************************************************************)
\* C24: a step in which start_acquisition returns a protocol error (the
\* image-info query failed) spawns no thread and leaves the thread handle
\* null, so that a later start_acquisition passes the check of the handle;
\* it calls no callback and moves no buffer.
C24_FailedQueryLeavesIdle ==
    [][cpc = "idle" /\ ~thread /\ cpc' = "idle"
          /\ ret' = CallRet("start_acquisition", FALSE, "ProtocolError")
          => /\ ~thread' /\ ThreadIsNull(thread')
             /\ tpc' = "none"
             /\ events' = events
             /\ kq' = kq
             /\ UNCHANGED << queueVars, buffers >>]_vars

\* a start has failed on the query, and the engine had buffers waiting
C24_Witness ==
    /\ ret = CallRet("start_acquisition", FALSE, "ProtocolError")
    /\ ~thread
    /\ cpc = "idle"
    /\ input # << >>

\* the BUFFER_DONE calls in a callback log
DoneCount(log) ==
    Cardinality({ k \in 1..Len(log) : log[k].type = "BUFFER_DONE" })

\* C25: the buffer announced by the k-th BUFFER_DONE call since the thread
\* was created (k = 0, 1, 2, ...) carries the frame id k, whatever the
\* earlier acquisitions have delivered.
C25_FrameIdsCountFromZero ==
    [][DoneCount(events') > DoneCount(events)
          => buffer_frame_id' = DoneCount(events)]_vars

\* the second acquisition has delivered its first frame, with the id 0, after
\* a first acquisition that delivered two
C25_Witness ==
    /\ cycles = 2
    /\ DoneCount(events) = 1
    /\ buffer_frame_id = 0
    /\ n_completed_buffers = ToGuint(3)

\* seconds * 1 000 000 000 + microseconds * 1 000
Nanoseconds(tv) ==
    AddNs(ScaleNs(Ns(0, 1000000000), tv.tv_sec), ScaleNs(Ns(0, 1000), tv.tv_usec))

\* the capture thread delivers a buffer in this step
Delivery ==
    /\ tpc = "lookup"
    /\ tpc' = "loop"
    /\ HashLookup(buffers, bufd_index) # NULL

\* C26: the timestamp stored in a delivered buffer is the kernel's
\* (seconds, microseconds) in nanoseconds:
\* seconds * 1 000 000 000 + microseconds * 1 000.
C26_TimestampInNanoseconds ==
    [][Delivery => timestamp_ns' = Nanoseconds(bufd_timestamp)]_vars

\* C27: a buffer is delivered (success status, completed-buffer counter,
\* BUFFER_DONE) only in an iteration whose VIDIOC_DQBUF succeeded and
\* returned the slot of that buffer; an iteration whose VIDIOC_DQBUF failed
\* delivers nothing.
C27_DeliveredOnlyWhenDequeued ==
    [][Delivery
          => /\ dequeued
             /\ V4l2Index(HashLookup(buffers, bufd_index)) = bufd_index]_vars

\* C21: from one state to the next no statistics counter (completed buffers,
\* failures, underruns, transferred bytes) decreases, also once more than
\* 2^32 bytes have been transferred; a counter changes only in a step of the
\* capture thread, so neither stop_acquisition nor start_acquisition resets it.
C21_CountersNeverDecrease ==
    [][/\ LeqGuint(n_completed_buffers, n_completed_buffers')
       /\ LeqGuint(n_failures, n_failures')
       /\ LeqGuint(n_underruns, n_underruns')
       /\ LeqGuint(n_transferred_bytes, n_transferred_bytes')
       /\ (counterVars' # counterVars => tpc = "lookup" /\ tpc' = "loop")]_vars

(***************************************************************************)
(* Properties of the buffer exchange.                                      *)
(***************************************************************************)
\* the slots that have an entry in the table
TableKeys(table) == { p[1] : p \in table }

\* the buffers that the table holds
TableValues(table) == { p[2] : p \in table }

\* C22: outside the step between a dequeue and its delivery, the table has
\* an entry for slot i exactly when this thread has submitted slot i to the
\* kernel and not dequeued it since, and it is empty after the shutdown
\* drain; so a buffer delivered to the output side has no entry until it is
\* submitted again.
C22_TableTracksSubmitted ==
    /\ tpc \in { "loop", "pop", "qbuf", "dqbuf" }
          => TableKeys(buffers) = undequeued
    /\ tpc \in { "exit", "done" } => buffers = {}

\* C23: the submit phase ends only when the input side is empty; a buffer
\* whose kernel submission fails is pushed to the output side once and has
\* no entry in the table afterwards; a buffer whose submission succeeds has
\* its entry under its slot index.
C23_FailedSubmissionReturnedOnce ==
    [][/\ (tpc = "pop" /\ tpc' = "dqbuf" => input = << >>)
       /\ (tpc = "qbuf" /\ tpc' = "pop" /\ output' # output
             => /\ Count(output', arv_buffer) = Count(output, arv_buffer) + 1
                /\ arv_buffer \notin TableValues(buffers'))
       /\ (tpc = "qbuf" /\ tpc' = "pop" /\ output' = output
             => << V4l2Index(arv_buffer), arv_buffer >> \in buffers')]_vars

\* C30: whenever a buffer is pushed to the output side, by a failed
\* submission, a delivery or the shutdown drain, the kernel does not hold
\* its slot at that moment.
C30_OutputNotOwnedByKernel ==
    [][\A buffer \in 1..n_created :
          Count(output', buffer) > Count(output, buffer)
             => V4l2Index(buffer) \notin kq']_vars

\* the buffers of the table, with their multiplicity
InFlight(b) ==
    Cardinality({ p \in buffers : p[2] = b })

\* the buffer popped by the capture thread and not yet submitted
AwaitingSubmission(b) ==
    IF tpc = "qbuf" /\ arv_buffer = b THEN 1 ELSE 0

OnOutput(index) ==
    \E p \in 1..Len(output) : V4l2Index(output[p]) = index

\* C1: after create_buffers, with the consumer holding no buffer, at every
\* point between a completed submit phase and the next dequeue the buffers of
\* the input side, the output side and the in-flight table add up to the
\* number of buffers created.
C1_NoSlotLeaked ==
    (tpc = "dqbuf" /\ n_created >= 1 /\ \A b \in 1..n_created : held[b] = 0)
    => Len(input) + Len(output) + Cardinality(buffers) = n_created

\* C2: when stop_acquisition has returned, the capture thread has exited and
\* every slot that was queued to the kernel and not dequeued when the thread
\* saw the cancel flag is on the output side.
C2_StopReclaimsBuffers ==
    (ret.op = "stop_acquisition" /\ ret.ok /\ cpc = "idle")
    => /\ tpc = "none"
       /\ ~thread
       /\ \A index \in undequeued : OnOutput(index)

\* stop_acquisition has returned while the kernel held every buffer created
C2_Witness ==
    /\ ret.op = "stop_acquisition" /\ ret.ok /\ cpc = "idle"
    /\ n_created = MaxBuffers
    /\ undequeued = { V4l2Index(b) : b \in 1..n_created }

\* C3: every buffer created is in exactly one place: once on one side of the
\* exchange queue, with the consumer, popped and awaiting submission, or in
\* the in-flight table.
C3_EachBufferInOnePlace ==
    \A b \in 1..n_created :
        Count(input, b) + Count(output, b) + held[b] + AwaitingSubmission(b)
            + InFlight(b) = 1

(***************************************************************************)
(* Properties of the engine's life cycle.                                  *)
(***************************************************************************)
StartReturned == ret.op = "start_acquisition" /\ ret.ok /\ cpc = "idle"

\* C11: start_acquisition, once it has spawned the capture thread, returns
\* only after the thread has delivered INIT, created its table and set
\* thread_started.
C11_StartReturnsAfterReadiness ==
    [][(cpc = "start_wait" /\ cpc' = "idle")
          => /\ thread_started
             /\ tpc \notin { "none", "start", "signal" }
             /\ callback => (events # << >> /\ events[1].type = "INIT")]_vars

\* start_acquisition has returned and the thread has not entered its loop
C11_Witness ==
    StartReturned /\ thread /\ tpc = "loop" /\ iter = 0 /\ ~cancel

\* C12: under fair scheduling a start_acquisition that has spawned the
\* capture thread eventually returns success, on the first start and on a
\* restart after a stop.
C12_StartEventuallyReturns ==
    (cpc = "start_wait") ~> StartReturned

\* the second start of an engine has returned
C12_Witness ==
    StartReturned /\ cycles = 2 /\ thread_started

\* C13: the thread handle is set exactly while a capture thread is spawned
\* and not joined, and a start_acquisition called then fails, spawns nothing
\* and leaves cancel, thread_started and the frame counter alone.
C13_StartWhileRunningRejected ==
    /\ [](thread <=> tpc # "none")
    /\ [][(thread /\ cpc = "idle"
            /\ (cpc' = "start_wait" \/ (ret'.op = "start_acquisition" /\ ret' # ret)))
          => /\ ~ret'.ok
             /\ cpc' = "idle"
             /\ UNCHANGED << thread, cancel, thread_started, frame_id, tpc >>]_vars

\* a start_acquisition has failed on a running engine that had delivered a
\* frame
C13_Witness ==
    /\ ret.op = "start_acquisition" /\ ~ret.ok /\ ret.err = "none"
    /\ thread /\ thread_started /\ frame_id >= 1 /\ ~cancel

IsType(event, type) == event.type = type

\* C14: in every start/stop cycle the callback receives INIT first, then
\* only BUFFER_DONE, each for a buffer that is on the output side, then EXIT
\* last and once; the thread has delivered INIT once it is past its start
\* and EXIT exactly when it is done.
C14_CallbackOrder ==
    callback =>
       /\ (events = << >>) <=> (tpc \in { "start" } \/ cycles = 0)
       /\ events # << >> => IsType(events[1], "INIT")
       /\ \A k \in 2..Len(events) :
             \/ IsType(events[k], "BUFFER_DONE") /\ events[k].on_output
             \/ IsType(events[k], "EXIT") /\ k = Len(events)
       /\ (events # << >> /\ IsType(events[Len(events)], "EXIT"))
             <=> (cycles > 0 /\ tpc \in { "done", "none" })

\* a cycle is over in which the callback received INIT, a BUFFER_DONE and
\* EXIT
C14_Witness ==
    /\ callback /\ tpc = "none" /\ cycles >= 1
    /\ Len(events) >= 3 /\ IsType(events[2], "BUFFER_DONE")

\* C15: once stop_acquisition has set the cancel flag on a running engine it
\* eventually returns, whatever the kernel does.
C15_StopEventuallyReturns ==
    (cpc = "stop_join") ~> (cpc = "idle")

\* C16: the capture thread is past its loop only when stop_acquisition has
\* set the cancel flag, it leaves the loop only from the loop condition, and
\* it reaches its exit only through the drain.
C16_ExitOnlyOnCancel ==
    /\ [](tpc \in { "drain", "exit", "done" } => (cancel /\ cpc = "stop_join"))
    /\ [][(tpc' = "drain" /\ tpc # "drain") => tpc = "loop"]_vars
    /\ [][(tpc' = "exit" /\ tpc # "exit") => tpc = "drain"]_vars

\* the thread is in its second iteration, a slot is queued, and the first
\* iteration delivered nothing: its VIDIOC_DQBUF failed or gave a slot the
\* table does not know
C16_Witness ==
    tpc = "pop" /\ iter = 1 /\ ~cancel /\ frame_id = 0 /\ undequeued # {}

(***************************************************************************)
(* Properties of the objects' end.                                         *)
(***************************************************************************)
\* C17: the descriptor is closed at most once, only when the last reference
\* to the device goes, and never while a capture thread is alive; the stream
\* holds its reference to the device until its finalization is over, and a
\* finalization that finds a thread has joined it before that.
C17_DescriptorClosedOnceAfterThread ==
    /\ [](n_close <= 1)
    /\ [](device_fd = "closed" => (n_close = 1 /\ device_refs = {}))
    /\ [](device_fd = "closed" => (tpc = "none" /\ ~thread))
    /\ [](stream_state # "finalized" => "stream" \in device_refs)
    /\ [](stream_state = "finalized" => (tpc = "none" /\ ~thread))
    /\ [][n_close' # n_close => (device_refs # {} /\ device_refs' = {})]_vars

\* the descriptor is closed, and the thread of the last successful start was
\* joined by the stream's finalization, not by a stop_acquisition call
C17_Witness ==
    /\ device_fd = "closed" /\ stream_state = "finalized"
    /\ StartReturned /\ iter = 0 /\ cycles >= 1

\* C18: the region of every destroyed buffer has been unmapped exactly once
\* and the caller's destructor called for it, and no region of a buffer that
\* is not destroyed has been unmapped.
C18_MappingUnmappedOnce ==
    \A b \in 1..n_created :
        IF mappings[b].destroyed
        THEN mappings[b].munmap = 1 /\ mappings[b].user_destroy = 1
        ELSE mappings[b].munmap = 0 /\ mappings[b].user_destroy = 0

(***************************************************************************)
(* Properties of the register map.                                         *)
(***************************************************************************)
InTable(pixel_formats, value) ==
    \E i \in 1..Len(pixel_formats) : pixel_formats[i] = value

IsWrite(r, address) ==
    r.op = "write_memory" /\ r.address = address /\ r.size = SizeofValue

\* C4: a 4-byte write to the pixel-format address of a value that is the
\* generic code of a table entry succeeds, without InvalidAddress, and leaves
\* active_format_index at an entry equal to the written value.
C4_KnownFormatWriteSucceeds ==
    (IsWrite(ret, ARV_V4L2_ADDRESS_PIXEL_FORMAT)
        /\ InTable(device.pixel_formats, ret.value))
    => /\ ret.ok
       /\ ret.err # "InvalidAddress"
       /\ IndexInRange(device)
       /\ ArrayIndex(device.pixel_formats, device.pixel_format_idx) = ret.value

\* C5: after a 4-byte write to the pixel-format register of a value present
\* in pixel_format_table, a 4-byte read of the pixel-format register succeeds
\* and returns the written value.
C5_WriteThenReadPixelFormat ==
    (IsWrite(ret, ARV_V4L2_ADDRESS_PIXEL_FORMAT)
        /\ InTable(device.pixel_formats, ret.value))
    => \A o \in ReadOutcomes(device, kformat, ARV_V4L2_ADDRESS_PIXEL_FORMAT,
                              SizeofValue, FALSE) :
          o.ok /\ o.word = ret.value

\* the write has moved active_format_index: the table holds two different
\* codes, construction left the index at the second, the first was written
C5_Witness ==
    /\ IsWrite(ret, ARV_V4L2_ADDRESS_PIXEL_FORMAT)
    /\ Len(device.pixel_formats) = 2
    /\ device.pixel_formats[1] = ret.value
    /\ device.pixel_formats[2] # ret.value
    /\ device.pixel_formats[2] # 0
    /\ device.pixel_format_idx = 0

\* C6: a 4-byte write to the pixel-format register of a value absent from
\* pixel_format_table fails with InvalidAddress and leaves
\* active_format_index as it was.
C6_UnknownFormatWriteRejected ==
    [][(IsWrite(ret', ARV_V4L2_ADDRESS_PIXEL_FORMAT)
            /\ ~InTable(device.pixel_formats, ret'.value))
        => /\ ~ret'.ok
           /\ ret'.err = "InvalidAddress"
           /\ device'.pixel_format_idx = device.pixel_format_idx]_vars

\* an absent value was written to a table of two entries whose active index is
\* not the last one
C6_Witness ==
    /\ IsWrite(ret, ARV_V4L2_ADDRESS_PIXEL_FORMAT)
    /\ ~InTable(device.pixel_formats, ret.value)
    /\ Len(device.pixel_formats) = 2
    /\ device.pixel_format_idx = 0
    /\ ~ret.ok

\* C7: a read of at least one byte at an address that is no identity string
\* fails with InvalidAddress unless the address is width, height, payload
\* size or pixel format and byte_length is 4.
C7_ReadWrongLengthFails ==
    (/\ ret.op = "read_memory"
     /\ ret.size >= 1
     /\ ret.address \notin StringAddresses
     /\ ~(ret.address \in NumericReadAddresses /\ ret.size = SizeofValue))
    => (~ret.ok /\ ret.err = "InvalidAddress")

\* C8: a write whose byte_length is not 4, or whose address is neither the
\* acquisition command nor the pixel format, fails with InvalidAddress and
\* leaves active_format_index and the kernel stream switch as they were.
C8_OnlyFourByteWritesAccepted ==
    [][(/\ ret'.op = "write_memory"
        /\ ~(/\ ret'.size = SizeofValue
              /\ ret'.address \in { ARV_V4L2_ADDRESS_ACQUISITION_COMMAND,
                                     ARV_V4L2_ADDRESS_PIXEL_FORMAT }))
        => /\ ~ret'.ok
           /\ ret'.err = "InvalidAddress"
           /\ device'.pixel_format_idx = device.pixel_format_idx
           /\ streaming' = streaming]_vars

Min(a, b) == IF a < b THEN a ELSE b

\* C9: a read of k >= 1 bytes at an identity-string address writes no byte
\* past the k-th: the first min(k-1, length) characters of the string, then a
\* null at or before position k-1.
C9_IdentityStringTruncated ==
    (ret.op = "read_memory" /\ ret.address \in StringAddresses /\ ret.size >= 1)
    => LET str == IdentityString(device, ret.address)
           n == Min(Len(str), ret.size - 1)
       IN  /\ ret.ok
           /\ \A p \in 1..n : ret.buffer[p] = str[p] /\ str[p] # 0
           /\ ret.buffer[n + 1] = 0
           /\ \A p \in DOMAIN ret.buffer :
                 /\ p > ret.size => ret.buffer[p] = -1
                 /\ (p > n /\ p <= ret.size) => ret.buffer[p] = 0

\* a string longer than the room left for it has been read and cut
C9_Witness ==
    /\ ret.op = "read_memory"
    /\ ret.address = ARV_V4L2_ADDRESS_DEVICE_MODEL_NAME
    /\ ret.size = 3
    /\ Len(device.device_card) > 3
    /\ ret.buffer[2] = device.device_card[2]
    /\ ret.buffer[3] = 0

(***************************************************************************)
(* Properties of the construction.                                         *)
(***************************************************************************)
\* the generic code of a kernel code: 0 when pixel_format_map has no entry
Translation(pixelformat) ==
    IF \E k \in 1..Len(pixel_format_map) : pixel_format_map[k].v4l2 = pixelformat
    THEN pixel_format_map[CHOOSE k \in 1..Len(pixel_format_map) :
                             pixel_format_map[k].v4l2 = pixelformat].genicam
    ELSE 0

IsSupported(format) == Translation(format.pixelformat) # 0

\* the frame sizes the kernel has for its formats with a generic code
SupportedFrameSizes(formats) ==
    UNION { { formats[i].sizes[j] : j \in 1..Len(formats[i].sizes) } :
              i \in { k \in 1..Len(formats) : IsSupported(formats[k]) } }

SetMax(S) == IF S = {} THEN 0 ELSE CHOOSE m \in S : \A x \in S : x <= m

\* C19: once constructed, and after any register read or write, sensor_width
\* and sensor_height are the maxima of the discrete or stepwise-maximum
\* widths and heights over every frame size of every supported format, 0
\* when there is none.
C19_SensorSizeIsMaximum ==
    dev_state = "ready" =>
       /\ device.sensor_width =
             SetMax({ FrameWidth(fs) : fs \in SupportedFrameSizes(kernel_formats) })
       /\ device.sensor_height =
             SetMax({ FrameHeight(fs) : fs \in SupportedFrameSizes(kernel_formats) })

\* formats with 640x480 and then 320x240 give 640 and 480, also after a
\* register write
C19_Witness ==
    /\ dev_state = "ready" /\ ret.op = "write_memory"
    /\ Len(kernel_formats) = 2
    /\ kernel_formats[1].sizes = << DiscreteFrameSize(640, 480) >>
    /\ kernel_formats[2].sizes = << DiscreteFrameSize(320, 240) >>
    /\ device.sensor_width = 640 /\ device.sensor_height = 480

\* the generic codes of the supported formats, in enumeration order
RECURSIVE SupportedCodes(_)
SupportedCodes(formats) ==
    IF formats = << >> THEN << >>
    ELSE (IF IsSupported(Head(formats))
          THEN << Translation(Head(formats).pixelformat) >> ELSE << >>)
         \o SupportedCodes(Tail(formats))

\* C20: once constructed, pixel_formats has one entry per format the kernel
\* enumerates, at the kernel's index, 0 for a kernel code without
\* translation; frame_sizes has the same length; the PixelFormat enumeration
\* has one EnumEntry per supported format, in order, and none for the others.
C20_OneEntryPerKernelFormat ==
    dev_state = "ready" =>
       /\ Len(device.pixel_formats) = Len(kernel_formats)
       /\ Len(device.frame_sizes) = Len(kernel_formats)
       /\ \A i \in 1..Len(kernel_formats) :
             device.pixel_formats[i] = Translation(kernel_formats[i].pixelformat)
       /\ device.enum_entries = SupportedCodes(kernel_formats)

\* a format without translation was enumerated before a supported one
C20_Witness ==
    /\ dev_state = "ready"
    /\ Len(device.pixel_formats) = 2
    /\ device.pixel_formats[1] = 0 /\ device.pixel_formats[2] # 0
    /\ Len(device.enum_entries) = 1

\* C28: once the device is constructed with at least one supported format
\* in its table, the active index designates a supported format (a generic
\* code other than 0), whatever is written to the registers.
C28_ActiveFormatSupported ==
    dev_state = "ready"
       /\ (\E k \in 1..Len(device.pixel_formats) : device.pixel_formats[k] # 0)
    => /\ 0 <= device.pixel_format_idx
       /\ device.pixel_format_idx < Len(device.pixel_formats)
       /\ ArrayIndex(device.pixel_formats, device.pixel_format_idx) # 0

\* C29: a register read, whatever its address, length and result, leaves
\* the active index, the format tables, the kernel's negotiated format and
\* the kernel's stream state as they were.
C29_ReadHasNoSideEffect ==
    [][ret'.op = "read_memory"
          => UNCHANGED << device, kformat, streaming, kq >>]_vars

\* C10: once construction has recorded no init error,
\* 0 <= active_format_index < len(pixel_format_table), whatever the kernel
\* enumerates and whatever is read or written.
C10_ActiveIndexInTable ==
    dev_state = "ready"
    => /\ 0 <= device.pixel_format_idx
       /\ device.pixel_format_idx < Len(device.pixel_formats)

====
